---- MODULE Spec2Model ----
(***************************************************************************)
(* Model of the Lattice desktop backend (src-tauri/src/main.rs): the five  *)
(* settings commands over the "settings.json" store and the setup step of  *)
(* main().                                                                 *)
(*                                                                         *)
(* The store is the capability of tauri-plugin-store the commands use:     *)
(* a store is created on the first successful app.store(...) of a process, *)
(* loading the persisted document into an in-memory cache; it is then kept *)
(* for the process lifetime and later app.store(...) calls return the same *)
(* store without I/O.  set/delete change the cache only, save writes the   *)
(* whole cache to the file.  A failed save is modelled as leaving the file *)
(* as it was (the failure precedes the write).  One process lifetime is    *)
(* modelled; commands run one at a time, to completion.                    *)
(***************************************************************************)
EXTENDS Naturals, Sequences, FiniteSets, TLC

\* Longest folder string the caller passes (strings are sequences of characters).
MaxLen == 2

Alphabet == {"a"}

RECURSIVE StringsUpTo(_)
StringsUpTo(n) ==
    IF n = 0 THEN {<<>>}
    ELSE LET shorter == StringsUpTo(n - 1)
         IN  shorter \cup {Append(s, c) : s \in {t \in shorter : Len(t) = n - 1}, c \in Alphabet}

\* The String arguments of the set commands.
Strings == StringsUpTo(MaxLen)

\* ---- store keys ---------------------------------------------------------
DefaultFolderKey == "default_folder"
LastOpenedFolderKey == "last_opened_folder"
\* A key of settings.json none of the commands names.
OtherKey == "theme"
SettingsKeys == {DefaultFolderKey, LastOpenedFolderKey}
Keys == SettingsKeys \cup {OtherKey}

\* ---- serde_json::Value --------------------------------------------------
JsonStringNulling(folder) ==
    IF folder = <<>> THEN [kind |-> "null", text |-> <<>>]
    ELSE [kind |-> "string", text |-> folder]

\* serde_json::json!(folder) for a String: Value::String(folder).
JsonString(folder) == [kind |-> "string", text |-> folder]
JsonNull == [kind |-> "null", text |-> <<>>]
JsonNumber == [kind |-> "number", text |-> <<>>]
JsonValues == {JsonString(s) : s \in Strings} \cup {JsonNull, JsonNumber}

\* ---- command results ----------------------------------------------------
\* Result<Option<String>, String> and Result<(), String>; the Err string is
\* the message of the step that failed.
OkSome(s) == [tag |-> "Some", val |-> s]
OkNone == [tag |-> "None", val |-> <<>>]
OkUnit == [tag |-> "Unit", val |-> <<>>]
ErrOpen == [tag |-> "ErrOpen", val |-> <<>>]
ErrSave == [tag |-> "ErrSave", val |-> <<>>]
NoResult == [tag |-> "none", val |-> <<>>]
IsErr(r) == r.tag \in {"ErrOpen", "ErrSave"}

AsStrLenient(value) == OkSome(value.text)

\* value.as_str() followed by Some(folder.to_string()), else fall through to None.
AsStr(value) == IF value.kind = "string" THEN OkSome(value.text) ELSE OkNone

\* ---- the store ----------------------------------------------------------
\* A store document: a map from some of the keys to JSON values.
EmptyMap == [k \in {} |-> JsonNull]
Maps == UNION {[D -> JsonValues] : D \in SUBSET Keys}

\* store.get(key) and the two `if let`s of the get commands.
StoreGet(m, key) == IF key \in DOMAIN m THEN AsStr(m[key]) ELSE OkNone

StoreSetOnly(m, key, value) == [k \in {key} |-> value]

StoreSetIfAbsent(m, key, value) ==
    [k \in DOMAIN m \cup {key} |-> IF k \in DOMAIN m THEN m[k] ELSE value]

\* store.set(key, value): insert or overwrite one entry of the cache.
StoreSet(m, key, value) ==
    [k \in DOMAIN m \cup {key} |-> IF k = key THEN value ELSE m[k]]

StoreDeleteKeep(m, key) == m

StoreDeleteNull(m, key) ==
    [k \in DOMAIN m \cup {key} |-> IF k = key THEN JsonNull ELSE m[k]]

\* store.delete(key): remove the entry if there is one.
StoreDelete(m, key) == [k \in DOMAIN m \ {key} |-> m[k]]

\* The bool store.delete returns: whether an entry was removed.
StoreDeleted(m, key) == key \in DOMAIN m

VARIABLES
    pc,              \* "init" before setup, then "running" (or "failed")
    windowExists,    \* the configuration defines a window labelled "main"
    maximizeCalled,  \* setup called window.maximize()
    maximized,       \* the main window is maximized
    loaded,          \* the store resource of settings.json exists in this process
    cache,           \* the store's in-memory map (meaningful once loaded)
    disk,            \* the persisted document settings.json
    lastCmd,         \* the command that ran last
    lastArg,         \* its folder argument
    lastResult,      \* what it returned
    lastIO,          \* what the environment did to it: "ok", "open_failed", "save_failed"
    lastDeleted,     \* the value store.delete returned to clear_default_folder
    prev             \* command, argument and result of the command before the last

vars == <<pc, windowExists, maximizeCalled, maximized, loaded, cache, disk,
          lastCmd, lastArg, lastResult, lastIO, lastDeleted, prev>>

winVars == <<pc, windowExists, maximizeCalled, maximized>>

\* The last command as the next one remembers it.
Last == [cmd |-> lastCmd, arg |-> lastArg, result |-> lastResult]

\* What the store holds: the cache once loaded, the file before that.
Contents == IF loaded THEN cache ELSE disk

\* app.store("settings.json") can fail only while it has to create the store.
OpenOutcomes == IF loaded THEN {TRUE} ELSE BOOLEAN

\* app.store("settings.json") succeeding: the cache the commands then work on.
Opened == IF loaded THEN cache ELSE disk

IOof(openOk, saveOk) ==
    IF ~openOk THEN "open_failed" ELSE IF ~saveOk THEN "save_failed" ELSE "ok"

TypeOK ==
    /\ pc \in {"init", "running", "failed"}
    /\ windowExists \in BOOLEAN /\ maximizeCalled \in BOOLEAN /\ maximized \in BOOLEAN
    /\ loaded \in BOOLEAN
    /\ cache \in Maps /\ disk \in Maps
    /\ lastArg \in Strings
    /\ lastIO \in {"ok", "open_failed", "save_failed"}
    /\ lastDeleted \in BOOLEAN

InitCommon ==
    /\ pc = "init"
    /\ windowExists \in BOOLEAN
    /\ maximizeCalled = FALSE
    /\ maximized = FALSE
    /\ loaded = FALSE
    /\ cache = EmptyMap
    /\ lastCmd = "none"
    /\ lastArg = <<>>
    /\ lastResult = NoResult
    /\ lastIO = "ok"
    /\ lastDeleted = FALSE
    /\ prev = [cmd |-> "none", arg |-> <<>>, result |-> NoResult]

\* A first launch: no settings were ever written.
Init == InitCommon /\ disk = EmptyMap

\* A launch over any settings.json left by an earlier run or edited by hand.
OtherValues == {JsonNumber}
InitAny ==
    /\ InitCommon
    /\ disk \in {m \in Maps : OtherKey \in DOMAIN m => m[OtherKey] \in OtherValues}

\* ---- store.save() -------------------------------------------------------
\* The file after store.save(): the whole cache when the write succeeds.
StoreSave(m, d, saveOk) == IF saveOk THEN m ELSE d

SaveResultIgnoring(saveOk) == OkUnit

\* store.save().map_err(|e| e.to_string())?; Ok(())
SaveResult(saveOk) == IF saveOk THEN OkUnit ELSE ErrSave

ClearResultStrict(deleted, saveOk) ==
    IF ~deleted THEN [tag |-> "ErrDelete", val |-> <<>>] ELSE SaveResult(saveOk)

\* clear_default_folder drops the bool of store.delete and reports the save.
ClearResult(deleted, saveOk) == SaveResult(saveOk)

\* ---- setup --------------------------------------------------------------
SetupResultPropagating(exists, maximizeOk) ==
    IF exists /\ ~maximizeOk THEN "Err" ELSE "Ok"

\* `let _ = window.maximize();` then Ok(()).
SetupResult(exists, maximizeOk) == "Ok"

\* The setup closure of main(): maximize the window labelled "main" if any.
setup ==
    /\ pc = "init"
    /\ \E maximizeOk \in BOOLEAN :
        /\ maximizeCalled' = windowExists
        /\ maximized' = (windowExists /\ maximizeOk)
        /\ pc' = IF SetupResult(windowExists, maximizeOk) = "Ok" THEN "running" ELSE "failed"
    /\ UNCHANGED <<windowExists, loaded, cache, disk,
                   lastCmd, lastArg, lastResult, lastIO, lastDeleted, prev>>

\* ---- commands -----------------------------------------------------------
get_default_folder ==
    /\ pc = "running"
    /\ \E openOk \in OpenOutcomes :
        /\ lastIO' = IOof(openOk, TRUE)
        /\ IF openOk
           THEN /\ loaded' = TRUE
                /\ cache' = Opened
                /\ lastResult' = StoreGet(Opened, DefaultFolderKey)
           ELSE /\ UNCHANGED <<loaded, cache>>
                /\ lastResult' = ErrOpen
    /\ lastCmd' = "get_default_folder"
    /\ lastArg' = <<>>
    /\ lastDeleted' = FALSE
    /\ prev' = Last
    /\ UNCHANGED <<winVars, disk>>

set_default_folder_atomic(folder) ==
    /\ pc = "running"
    /\ \E openOk \in OpenOutcomes, saveOk \in BOOLEAN :
        /\ lastIO' = IOof(openOk, saveOk)
        /\ IF openOk
           THEN /\ loaded' = TRUE
                /\ cache' = IF saveOk THEN StoreSet(Opened, DefaultFolderKey, JsonString(folder))
                            ELSE Opened
                /\ disk' = StoreSave(cache', disk, saveOk)
                /\ lastResult' = SaveResult(saveOk)
           ELSE /\ UNCHANGED <<loaded, cache, disk>>
                /\ lastResult' = ErrOpen
    /\ lastCmd' = "set_default_folder"
    /\ lastArg' = folder
    /\ lastDeleted' = FALSE
    /\ prev' = Last
    /\ UNCHANGED winVars

set_default_folder(folder) ==
    /\ pc = "running"
    /\ \E openOk \in OpenOutcomes, saveOk \in BOOLEAN :
        /\ lastIO' = IOof(openOk, saveOk)
        /\ IF openOk
           THEN /\ loaded' = TRUE
                /\ cache' = StoreSet(Opened, DefaultFolderKey, JsonString(folder))
                /\ disk' = StoreSave(cache', disk, saveOk)
                /\ lastResult' = SaveResult(saveOk)
           ELSE /\ UNCHANGED <<loaded, cache, disk>>
                /\ lastResult' = ErrOpen
    /\ lastCmd' = "set_default_folder"
    /\ lastArg' = folder
    /\ lastDeleted' = FALSE
    /\ prev' = Last
    /\ UNCHANGED winVars

get_last_opened_folder ==
    /\ pc = "running"
    /\ \E openOk \in OpenOutcomes :
        /\ lastIO' = IOof(openOk, TRUE)
        /\ IF openOk
           THEN /\ loaded' = TRUE
                /\ cache' = Opened
                /\ lastResult' = StoreGet(Opened, LastOpenedFolderKey)
           ELSE /\ UNCHANGED <<loaded, cache>>
                /\ lastResult' = ErrOpen
    /\ lastCmd' = "get_last_opened_folder"
    /\ lastArg' = <<>>
    /\ lastDeleted' = FALSE
    /\ prev' = Last
    /\ UNCHANGED <<winVars, disk>>

set_last_opened_folder(folder) ==
    /\ pc = "running"
    /\ \E openOk \in OpenOutcomes, saveOk \in BOOLEAN :
        /\ lastIO' = IOof(openOk, saveOk)
        /\ IF openOk
           THEN /\ loaded' = TRUE
                /\ cache' = StoreSet(Opened, LastOpenedFolderKey, JsonString(folder))
                /\ disk' = StoreSave(cache', disk, saveOk)
                /\ lastResult' = SaveResult(saveOk)
           ELSE /\ UNCHANGED <<loaded, cache, disk>>
                /\ lastResult' = ErrOpen
    /\ lastCmd' = "set_last_opened_folder"
    /\ lastArg' = folder
    /\ lastDeleted' = FALSE
    /\ prev' = Last
    /\ UNCHANGED winVars

clear_default_folder ==
    /\ pc = "running"
    /\ \E openOk \in OpenOutcomes, saveOk \in BOOLEAN :
        /\ lastIO' = IOof(openOk, saveOk)
        /\ IF openOk
           THEN /\ loaded' = TRUE
                /\ lastDeleted' = StoreDeleted(Opened, DefaultFolderKey)
                /\ cache' = StoreDelete(Opened, DefaultFolderKey)
                /\ disk' = StoreSave(cache', disk, saveOk)
                /\ lastResult' = ClearResult(lastDeleted', saveOk)
           ELSE /\ UNCHANGED <<loaded, cache, disk>>
                /\ lastDeleted' = FALSE
                /\ lastResult' = ErrOpen
    /\ lastCmd' = "clear_default_folder"
    /\ lastArg' = <<>>
    /\ prev' = Last
    /\ UNCHANGED winVars

Next ==
    \/ setup
    \/ get_default_folder
    \/ \E folder \in Strings : set_default_folder(folder)
    \/ get_last_opened_folder
    \/ \E folder \in Strings : set_last_opened_folder(folder)
    \/ clear_default_folder

\* The application from a first launch.
Spec == Init /\ [][Next]_vars

\* The application launched over an arbitrary settings.json.
SpecAny == InitAny /\ [][Next]_vars

\* ---- claims ---------------------------------------------------------------
Gets == {"get_default_folder", "get_last_opened_folder"}
Writes == {"set_default_folder", "set_last_opened_folder", "clear_default_folder"}
KeyOf(cmd) ==
    IF cmd \in {"get_last_opened_folder", "set_last_opened_folder"}
    THEN LastOpenedFolderKey ELSE DefaultFolderKey

\* m holds the string s, as it was passed, under key.
HoldsString(m, key, s) ==
    key \in DOMAIN m /\ m[key].kind = "string" /\ m[key].text = s

\* Every key but `key` is the same in m and n.
SameElsewhere(m, n, key) ==
    /\ DOMAIN m \ {key} = DOMAIN n \ {key}
    /\ \A k \in DOMAIN m \ {key} : m[k] = n[k]

\* C1: a get that directly follows a successful set of the same setting
\* returns Some of the string that was set, for both settings and whatever
\* the store held before.
SetGetRoundTrip ==
    /\ (lastCmd = "get_default_folder" /\ prev.cmd = "set_default_folder"
            /\ prev.result = OkUnit)
        => lastResult = OkSome(prev.arg)
    /\ (lastCmd = "get_last_opened_folder" /\ prev.cmd = "set_last_opened_folder"
            /\ prev.result = OkUnit)
        => lastResult = OkSome(prev.arg)

SetGetRoundTripWitness ==
    /\ lastCmd = "get_last_opened_folder"
    /\ prev.cmd = "set_last_opened_folder"
    /\ prev.result = OkUnit
    /\ prev.arg = <<>>
    /\ lastResult = OkSome(<<>>)

\* C2: a get_default_folder that directly follows a successful
\* clear_default_folder returns None, whatever the store held before.
ClearThenGetIsNone ==
    (lastCmd = "get_default_folder" /\ prev.cmd = "clear_default_folder"
        /\ prev.result = OkUnit)
    => lastResult = OkNone

ClearThenGetIsNoneWitness ==
    /\ lastCmd = "get_default_folder"
    /\ prev.cmd = "clear_default_folder"
    /\ prev.result = OkUnit
    /\ lastResult = OkNone
    /\ LastOpenedFolderKey \in DOMAIN cache

\* C3: set_last_opened_folder leaves what get_default_folder returns as it
\* was, set_default_folder and clear_default_folder leave what
\* get_last_opened_folder returns as it was, and each of the three leaves
\* every key of the store but its own untouched.  (The file is another
\* matter: a save writes the whole cache, so it also writes what an earlier
\* failed save of the other key left unwritten.)
KeyIndependence ==
    [][ /\ lastCmd' = "set_last_opened_folder"
            => StoreGet(Contents', DefaultFolderKey) = StoreGet(Contents, DefaultFolderKey)
        /\ lastCmd' \in {"set_default_folder", "clear_default_folder"}
            => StoreGet(Contents', LastOpenedFolderKey) = StoreGet(Contents, LastOpenedFolderKey)
        /\ lastCmd' \in Writes
            => SameElsewhere(Contents', Contents, KeyOf(lastCmd'))
      ]_vars

KeyIndependenceWitness ==
    /\ lastCmd = "set_last_opened_folder"
    /\ lastResult = OkUnit
    /\ HoldsString(cache, LastOpenedFolderKey, lastArg)
    /\ DefaultFolderKey \in DOMAIN cache
    /\ cache[DefaultFolderKey] # cache[LastOpenedFolderKey]

\* C4: a get changes neither the store nor the file, fails exactly when the
\* store cannot be opened, and otherwise returns Some(v) exactly when its key
\* holds the JSON string v and None exactly when the key is missing or holds
\* a value that is not a string.
GetContract ==
    [][ lastCmd' \in Gets =>
        LET key == KeyOf(lastCmd') IN
        /\ disk' = disk
        /\ Contents' = Contents
        /\ IsErr(lastResult') <=> lastIO' = "open_failed"
        /\ lastResult'.tag \in {"Some", "None", "ErrOpen"}
        /\ ~IsErr(lastResult') =>
            /\ \A v \in Strings :
                 lastResult' = OkSome(v) <=> HoldsString(Contents, key, v)
            /\ lastResult' = OkNone <=>
                 (key \notin DOMAIN Contents \/ Contents[key].kind # "string")
      ]_vars

GetContractWitness ==
    /\ lastCmd = "get_default_folder"
    /\ lastResult = OkNone
    /\ DefaultFolderKey \in DOMAIN cache
    /\ cache[DefaultFolderKey].kind = "number"

\* C5 as stated: each of the two fields, in the store and in the file, is
\* absent or a non-empty string.
FieldsAbsentOrNonEmpty ==
    \A key \in SettingsKeys : \A m \in {Contents, disk} :
        key \in DOMAIN m => (m[key].kind = "string" /\ m[key].text # <<>>)

\* C5 amended: each of the two fields, in the store and in the file, is
\* absent or a string, which may be empty; a set command that got past the
\* open left its argument, as passed, in the store.
FieldsAbsentOrString ==
    /\ \A key \in SettingsKeys : \A m \in {Contents, disk} :
        key \in DOMAIN m => (m[key].kind = "string" /\ m[key].text \in Strings)
    /\ (lastCmd \in {"set_default_folder", "set_last_opened_folder"}
            /\ lastIO # "open_failed")
        => HoldsString(cache, KeyOf(lastCmd), lastArg)

FieldsAbsentOrStringWitness ==
    /\ lastCmd = "set_default_folder"
    /\ lastArg = <<>>
    /\ lastResult = OkUnit
    /\ HoldsString(disk, DefaultFolderKey, <<>>)

\* C6: a set command that returns success has written its argument under
\* its key to the file, and one whose open or save failed returns an error.
SetPersistsOrFails ==
    lastCmd \in {"set_default_folder", "set_last_opened_folder"} =>
        /\ lastResult = OkUnit => HoldsString(disk, KeyOf(lastCmd), lastArg)
        /\ lastIO # "ok" => IsErr(lastResult)
        /\ lastIO = "ok" => lastResult = OkUnit

SetPersistsOrFailsWitness ==
    /\ lastCmd = "set_default_folder"
    /\ lastResult = OkUnit
    /\ prev.cmd = "set_default_folder"
    /\ prev.result = ErrSave
    /\ prev.arg # lastArg
    /\ HoldsString(disk, DefaultFolderKey, lastArg)

\* C7: clear_default_folder returns success exactly when open and save
\* succeed, whether or not default_folder was there, and an error of the
\* open or of the save otherwise; past the open the key is gone from the
\* store, and on success from the file.
ClearContract ==
    lastCmd = "clear_default_folder" =>
        /\ lastIO = "ok" => lastResult = OkUnit
        /\ lastIO = "open_failed" => lastResult = ErrOpen
        /\ lastIO = "save_failed" => lastResult = ErrSave
        /\ lastIO # "open_failed" => DefaultFolderKey \notin DOMAIN cache
        /\ lastIO = "ok" => DefaultFolderKey \notin DOMAIN disk

ClearContractWitness ==
    /\ lastCmd = "clear_default_folder"
    /\ lastIO = "ok"
    /\ ~lastDeleted
    /\ lastResult = OkUnit

\* C8: from an empty settings.json, the file holds no key but
\* "default_folder" and "last_opened_folder", each a JSON string.
FileShape ==
    /\ DOMAIN disk \subseteq {"default_folder", "last_opened_folder"}
    /\ \A k \in DOMAIN disk : disk[k].kind = "string"

FileShapeWitness ==
    /\ DOMAIN disk = {"default_folder", "last_opened_folder"}
    /\ disk["default_folder"] # disk["last_opened_folder"]

\* C9: setup never fails; it calls maximize exactly when the window "main"
\* exists, and the application runs whether or not the call succeeded.
SetupTolerant ==
    /\ pc # "failed"
    /\ pc = "running" => (maximizeCalled <=> windowExists)
    /\ pc = "init" => ~maximizeCalled
    /\ maximized => maximizeCalled

SetupTolerantWitness ==
    /\ pc = "running"
    /\ windowExists
    /\ maximizeCalled
    /\ ~maximized

\* C10: a set or clear that fails at the open changes neither store nor
\* file; one that fails at the save returns an error with the store already
\* changed and the file as it was; a get_default_folder right after a
\* set_default_folder(s) that failed at the save returns Some(s).
PartialEffectOnFailure ==
    [][ /\ (lastCmd' \in Writes /\ lastIO' = "open_failed")
            => (lastResult' = ErrOpen /\ cache' = cache /\ disk' = disk /\ loaded' = loaded)
        /\ (lastCmd' \in Writes /\ lastIO' = "save_failed")
            => /\ lastResult' = ErrSave
               /\ disk' = disk
               /\ loaded'
               /\ IF lastCmd' = "clear_default_folder"
                  THEN DefaultFolderKey \notin DOMAIN cache'
                  ELSE HoldsString(cache', KeyOf(lastCmd'), lastArg')
        /\ (lastCmd' = "get_default_folder" /\ lastCmd = "set_default_folder"
                /\ lastIO = "save_failed")
            => lastResult' = OkSome(lastArg)
      ]_vars

PartialEffectOnFailureWitness ==
    /\ lastCmd = "get_default_folder"
    /\ prev.cmd = "set_default_folder"
    /\ prev.result = ErrSave
    /\ lastResult = OkSome(prev.arg)
    /\ HoldsString(cache, DefaultFolderKey, prev.arg)
    /\ DefaultFolderKey \in DOMAIN disk
    /\ disk[DefaultFolderKey] # cache[DefaultFolderKey]
====
